---- MODULE Spec2Model ----
(***************************************************************************)
(* Import-graph builder and analyzer of codeGen_challenge.py.              *)
(*                                                                         *)
(* Strings that the program takes apart (paths, module names, qualified    *)
(* import names) are sequences of one-character strings, so that           *)
(* str.replace, str.endswith and str.split are computed, not assumed.      *)
(* Opaque texts (snippets, descriptions) are TLA+ strings.                 *)
(***************************************************************************)
EXTENDS Integers, Sequences, FiniteSets, TLC

VARIABLES tree, phase, visited, module_name, pending, graph, previous, report

vars == <<tree, phase, visited, module_name, pending, graph, previous, report>>

(***************************************************************************)
(* Bounds                                                                  *)
(***************************************************************************)
\* largest number of files in a scanned tree
MaxFiles == 3

(***************************************************************************)
(* String helpers (Python str methods)                                     *)
(***************************************************************************)
DotPy == <<".", "p", "y">>

Sep == "/"

\* s.startswith(t)
StartsWith(s, t) == Len(s) >= Len(t) /\ SubSeq(s, 1, Len(t)) = t

\* s.endswith(t)
EndsWith(s, t) == Len(s) >= Len(t) /\ SubSeq(s, Len(s) - Len(t) + 1, Len(s)) = t

\* s.replace(old, new): every non-overlapping occurrence, left to right
RECURSIVE Replace(_, _, _)
Replace(s, old, new) ==
    IF s = <<>> THEN <<>>
    ELSE IF StartsWith(s, old)
         THEN new \o Replace(SubSeq(s, Len(old) + 1, Len(s)), old, new)
         ELSE <<Head(s)>> \o Replace(Tail(s), old, new)

\* s.split('.')[0]: the text before the first '.', the whole of s if it has none
RECURSIVE SplitFirst(_)
SplitFirst(s) ==
    IF s = <<>> \/ Head(s) = "." THEN <<>>
    ELSE <<Head(s)>> \o SplitFirst(Tail(s))

\* the last path component: the `file` that os.walk hands to the loop
RECURSIVE Basename(_)
Basename(p) ==
    IF \E i \in 1..Len(p) : p[i] = Sep
    THEN Basename(Tail(p))
    ELSE p

\* the directory part of a relative path: the `root` of os.walk, <<>> at the top
Dirname(p) == SubSeq(p, 1, Len(p) - Len(Basename(p)))

(***************************************************************************)
(* Inputs: the scanned tree                                                *)
(***************************************************************************)
\* ast.Import / ast.ImportFrom / any other node.  module is {} for None.
Import(names) == [type |-> "Import", module |-> {}, names |-> names]

ImportFrom(module, names) == [type |-> "ImportFrom", module |-> module, names |-> names]

Other == [type |-> "Other", module |-> {}, names |-> <<>>]

\* a file: whether open()/read() succeeds, whether ast.parse succeeds, and the
\* statements its text holds in ast.walk order
File(readable, parses, stmts) == [readable |-> readable, parses |-> parses, stmts |-> stmts]

Bodies ==
    { File(TRUE, TRUE, <<>>),
      File(FALSE, TRUE, <<Import(<< <<"c">> >>)>>),
      File(TRUE, FALSE, <<Import(<< <<"b", ".", "c">> >>)>>),
      File(TRUE, TRUE, <<ImportFrom({<<"a">>}, << <<"x">>, <<"y">> >>)>>),
      File(TRUE, TRUE, <<Other, Import(<< <<"b", ".", "c">> >>)>>),
      File(TRUE, TRUE, <<Import(<< <<"c">> >>)>>),
      File(TRUE, TRUE, <<ImportFrom({}, << <<"x">> >>), Import(<< <<"a">> >>)>>) }

\* relative paths of the files a tree may hold
Paths ==
    { <<"a", ".", "p", "y">>,
      <<"a", ".", "p", "y", ".", "p", "y">>,
      <<"b", ".", "p", "y">>,
      <<"c", ".", "p", "y">>,
      <<"p", "/", "a", ".", "p", "y">>,
      <<"a", ".", "p", "y", "c">> }

\* a tree: up to MaxFiles files with their contents.  A file whose name does not
\* end in .py is never opened, so its content is not varied.
Trees ==
    { t \in UNION { [S -> Bodies] : S \in { T \in SUBSET Paths : Cardinality(T) <= MaxFiles } } :
        \A f \in DOMAIN t : ~EndsWith(f, DotPy) => t[f] = File(TRUE, TRUE, <<>>) }

(***************************************************************************)
(* networkx.DiGraph                                                        *)
(***************************************************************************)
\* node: name -> attribute dict; adj: <<u, v>> -> attribute dict
EmptyGraph == [node |-> <<>>, adj |-> <<>>]

NoAttrs == <<>>

Nodes(G) == DOMAIN G.node

Edges(G) == DOMAIN G.adj

\* dict.update: the keys of new win, the other keys of old stay
Update(old, new) == new @@ old

\* G.add_node(n, **attrs)
add_node(G, n, attrs) ==
    [G EXCEPT !.node =
        IF n \in DOMAIN G.node
        THEN [G.node EXCEPT ![n] = Update(G.node[n], attrs)]
        ELSE (n :> attrs) @@ G.node]

\* add_edge that records the edge without creating its target node
add_edge_without_target(G, u, v, attrs) ==
    [node |-> IF u \in DOMAIN G.node THEN G.node ELSE (u :> NoAttrs) @@ G.node,
     adj  |-> (<<u, v>> :> attrs) @@ [e \in DOMAIN G.adj \ {<<u, v>>} |-> G.adj[e]]]

\* add_edge that creates its end points afresh, dropping their attributes
add_edge_resetting_nodes(G, u, v, attrs) ==
    [node |-> (u :> G.node[u]) @@ (v :> NoAttrs) @@ G.node,
     adj  |-> (<<u, v>> :> attrs) @@ [e \in DOMAIN G.adj \ {<<u, v>>} |-> G.adj[e]]]

\* G.add_edge(u, v, **attrs): both end points become nodes if they are not yet
add_edge(G, u, v, attrs) ==
    LET withU == IF u \in DOMAIN G.node THEN G.node ELSE (u :> NoAttrs) @@ G.node
        withV == IF v \in DOMAIN withU THEN withU ELSE (v :> NoAttrs) @@ withU
        data  == IF <<u, v>> \in DOMAIN G.adj
                 THEN Update(G.adj[<<u, v>>], attrs)
                 ELSE attrs
    IN  [node |-> withV,
         adj  |-> (<<u, v>> :> data) @@ [e \in DOMAIN G.adj \ {<<u, v>>} |-> G.adj[e]]]

number_of_nodes(G) == Cardinality(Nodes(G))

number_of_edges(G) == Cardinality(Edges(G))

in_degree(G, n) == Cardinality({e \in Edges(G) : e[2] = n})

out_degree(G, n) == Cardinality({e \in Edges(G) : e[1] = n})

\* a self-loop counts twice
degree(G, n) == in_degree(G, n) + out_degree(G, n)

(***************************************************************************)
(* The program's functions                                                 *)
(***************************************************************************)
\* line 76: relpath(...).replace('.py', '').replace(os.path.sep, '.')
ModuleName(path) == Replace(Replace(path, DotPy, <<>>), <<Sep>>, <<".">>)

\* node.module or ''
ModuleOrEmpty(module) == IF module = {} THEN <<>> ELSE CHOOSE m \in module : TRUE

\* the extractor without the '.' prefix for a from-import with no module part
ImportPairs_bare_name(stmt) ==
    IF stmt.type = "Import"
    THEN [i \in 1..Len(stmt.names) |-> <<stmt.names[i], stmt.names[i]>>]
    ELSE IF stmt.type = "ImportFrom"
    THEN [i \in 1..Len(stmt.names) |->
             <<IF stmt.module = {} THEN stmt.names[i]
               ELSE ModuleOrEmpty(stmt.module) \o <<".">> \o stmt.names[i],
               stmt.names[i]>>]
    ELSE <<>>

\* the pairs one syntax-tree node contributes
ImportPairs(stmt) ==
    IF stmt.type = "Import"
    THEN [i \in 1..Len(stmt.names) |-> <<stmt.names[i], stmt.names[i]>>]
    ELSE IF stmt.type = "ImportFrom"
    THEN [i \in 1..Len(stmt.names) |->
             <<ModuleOrEmpty(stmt.module) \o <<".">> \o stmt.names[i], stmt.names[i]>>]
    ELSE <<>>

RECURSIVE WalkImports(_)
WalkImports(stmts) ==
    IF stmts = <<>> THEN <<>>
    ELSE ImportPairs(Head(stmts)) \o WalkImports(Tail(stmts))

\* an extractor that scans the text for import statements without parsing it
parse_imports_without_parsing(file) ==
    IF ~file.readable THEN <<>>
    ELSE WalkImports(file.stmts)

\* an extractor that does not notice a failed read
parse_imports_without_read_check(file) ==
    IF ~file.parses THEN <<>>
    ELSE WalkImports(file.stmts)

\* parse_imports: [] when the file cannot be read or parsed
parse_imports(file) ==
    IF ~file.readable \/ ~file.parses THEN <<>>
    ELSE WalkImports(file.stmts)

\* generate_description: a text of the external service (or its fallback text);
\* the program stores it and never reads it, so one opaque value stands for it
generate_description(snippet) == "description text"

\* extract_code_snippet: <<snippet, description>>
extract_code_snippet(file) ==
    IF file.readable
    THEN <<"first lines", generate_description("first lines")>>
    ELSE <<"Unable to read file", "Description not available.">>

\* line 87
TargetModule(full_name) == SplitFirst(full_name)

(***************************************************************************)
(* Graph analysis                                                          *)
(***************************************************************************)
Max(S) == IF S = {} THEN 0 ELSE CHOOSE x \in S : \A y \in S : y <= x

\* nx.is_directed_acyclic_graph: a topological sort that removes, generation by
\* generation, the nodes no remaining edge points at; a cycle is what is left.
\* A self-loop is an incoming edge of its node.
ZeroInDegree_ignoring_self_loops(G, left) ==
    {n \in left : ~\E e \in Edges(G) : e[2] = n /\ e[1] \in left /\ e[1] # n}

ZeroInDegree(G, left) ==
    {n \in left : ~\E e \in Edges(G) : e[2] = n /\ e[1] \in left}

RECURSIVE TopologicalLeftover(_, _)
TopologicalLeftover(G, left) ==
    IF ZeroInDegree(G, left) = {} THEN left
    ELSE TopologicalLeftover(G, left \ ZeroInDegree(G, left))

is_directed_acyclic_graph(G) == TopologicalLeftover(G, Nodes(G)) = {}

\* what analyze_codebase prints
Metrics(G) ==
    [modules       |-> number_of_nodes(G),
     imports       |-> number_of_edges(G),
     max_degree    |-> Max({degree(G, n) : n \in Nodes(G)}),
     max_in_degree |-> Max({in_degree(G, n) : n \in Nodes(G)}),
     isolated      |-> Cardinality({n \in Nodes(G) : degree(G, n) = 0}),
     acyclic       |-> is_directed_acyclic_graph(G)]

(***************************************************************************)
(* State machine                                                           *)
(***************************************************************************)
Init ==
    /\ tree \in Trees
    /\ phase = "idle"
    /\ visited = {}
    /\ module_name = <<>>
    /\ pending = <<>>
    /\ graph = EmptyGraph
    /\ previous = {}
    /\ report = <<>>

\* os.walk is top-down: the files of a directory come before those of its
\* subdirectories; within one directory the order is the platform's
WalkNext(f) ==
    /\ f \in DOMAIN tree \ visited
    /\ \A g \in DOMAIN tree \ visited : Len(Dirname(g)) >= Len(Dirname(f))

\* build_import_graph(directory) is called: graph = nx.DiGraph()
StartBuild ==
    /\ phase = "idle"
    /\ graph' = EmptyGraph
    /\ visited' = {}
    /\ pending' = <<>>
    /\ phase' = "building"
    /\ UNCHANGED <<tree, module_name, previous, report>>

\* build_import_graph is called a second time on the unchanged tree; the first
\* call's result is kept for comparison
BuildAgain ==
    /\ phase = "analyzed"
    /\ previous = {}
    /\ previous' = {graph}
    /\ graph' = EmptyGraph
    /\ visited' = {}
    /\ pending' = <<>>
    /\ phase' = "building"
    /\ UNCHANGED <<tree, module_name, report>>

\* a file of the walk whose name does not end in .py
SkipFile(f) ==
    /\ phase = "building"
    /\ pending = <<>>
    /\ WalkNext(f)
    /\ ~EndsWith(Basename(f), DotPy)
    /\ visited' = visited \cup {f}
    /\ UNCHANGED <<tree, phase, module_name, pending, graph, previous, report>>

\* lines 75-85 for one .py file
ScanFile(f) ==
    /\ phase = "building"
    /\ pending = <<>>
    /\ WalkNext(f)
    /\ EndsWith(Basename(f), DotPy)
    /\ LET name == ModuleName(f)
           sd   == extract_code_snippet(tree[f])
       IN  /\ module_name' = name
           /\ graph' = add_node(graph, name, [snippet |-> sd[1], description |-> sd[2]])
    /\ pending' = parse_imports(tree[f])
    /\ visited' = visited \cup {f}
    /\ UNCHANGED <<tree, phase, previous, report>>

\* lines 86-88: one iteration of the loop over the imports
AddEdge ==
    /\ phase = "building"
    /\ pending # <<>>
    /\ LET full_name == Head(pending)[1]
           symbol    == Head(pending)[2]
       IN  graph' = add_edge(graph, module_name, TargetModule(full_name), [symbol |-> symbol])
    /\ pending' = Tail(pending)
    /\ UNCHANGED <<tree, phase, visited, module_name, previous, report>>

\* line 90
Return ==
    /\ phase = "building"
    /\ pending = <<>>
    /\ visited = DOMAIN tree
    /\ phase' = "built"
    /\ UNCHANGED <<tree, visited, module_name, pending, graph, previous, report>>

\* analyze_codebase(graph)
Analyze ==
    /\ phase = "built"
    /\ report' = Metrics(graph)
    /\ phase' = "analyzed"
    /\ UNCHANGED <<tree, visited, module_name, pending, graph, previous>>

Next ==
    \/ StartBuild
    \/ \E f \in Paths : SkipFile(f)
    \/ \E f \in Paths : ScanFile(f)
    \/ AddEdge
    \/ Return
    \/ Analyze

Spec == Init /\ [][Next]_vars

\* the same program, building the graph twice
NextTwice ==
    \/ StartBuild
    \/ \E f \in Paths : SkipFile(f)
    \/ \E f \in Paths : ScanFile(f)
    \/ AddEdge
    \/ Return
    \/ Analyze
    \/ BuildAgain

SpecTwice == Init /\ [][NextTwice]_vars

(***************************************************************************)
(* Vocabulary of the properties                                            *)
(***************************************************************************)
IsSource(f) == EndsWith(Basename(f), DotPy)

\* the source files the running build has scanned so far
Scanned == {f \in visited : IsSource(f)}

Built == phase \in {"built", "analyzed"}

\* visited' = visited + {f}: the step is the scan of source file f
ScanStep(f) == f \notin visited /\ f \in visited' /\ IsSource(f)

RECURSIVE ImportPairCount(_)
ImportPairCount(files) ==
    IF files = {} THEN 0
    ELSE LET f == CHOOSE g \in files : TRUE
         IN  Len(parse_imports(tree[f])) + ImportPairCount(files \ {f})

EdgeTriples(G) == {<<e[1], e[2], G.adj[e].symbol>> : e \in Edges(G)}

\* t is the text of q before q's first '.', stated without split
IsFirstSegment(t, q) ==
    /\ Len(t) <= Len(q)
    /\ \A i \in 1..Len(t) : t[i] = q[i] /\ t[i] # "."
    /\ Len(t) < Len(q) => q[Len(t) + 1] = "."

\* the nodes reached from the nodes of S along one or more edges
RECURSIVE ReachedFrom(_, _, _)
ReachedFrom(G, S, seen) ==
    LET next == {e[2] : e \in {d \in Edges(G) : d[1] \in S}} \ seen
    IN  IF next = {} THEN seen ELSE ReachedFrom(G, next, seen \cup next)

HasCycle(G) == \E n \in Nodes(G) : n \in ReachedFrom(G, {n}, {})

\* the loop is never stuck: while building, some step of it can be taken
LoopGoesOn ==
    phase = "building" =>
        \/ pending # <<>>
        \/ \E f \in DOMAIN tree \ visited : WalkNext(f)
        \/ visited = DOMAIN tree

A == <<"a">>

B == <<"b">>

C == <<"c">>

Root == <<>>

(***************************************************************************)
(* Claims                                                                  *)
(***************************************************************************)
\* C1: after build_import_graph finishes, the edge count (reported as total
\* imports) equals the sum over the scanned modules of their import pairs.
C1_EdgeCountIsPairCount ==
    /\ Built => number_of_edges(graph) = ImportPairCount(Scanned)
    /\ phase = "analyzed" => report.imports = ImportPairCount(Scanned)

\* C2: for every import pair (q, s) of a scanned module m the finished graph
\* has an edge m -> top-level(q) labelled s.
C2_EdgePerSymbol ==
    Built =>
        \A f \in Scanned : \A i \in 1..Len(parse_imports(tree[f])) :
            LET pair == parse_imports(tree[f])[i]
            IN  <<ModuleName(f), TargetModule(pair[1]), pair[2]>> \in EdgeTriples(graph)

\* C3: in every state of the build, every edge's source is the name of a
\* scanned source file (a node carrying that scan's snippet) and every edge's
\* target is a node, whether or not a source file has that name.
C3_EdgeEndpoints ==
    LET scannedNames == {ModuleName(f) : f \in Scanned}
    IN  \A e \in Edges(graph) :
            /\ e[1] \in scannedNames
            /\ e[1] \in Nodes(graph)
            /\ "snippet" \in DOMAIN graph.node[e[1]]
            /\ e[2] \in Nodes(graph)

\* an edge, taken mid-loop, to a target no file of the tree is named after
C3_Witness ==
    /\ phase = "building"
    /\ pending # <<>>
    /\ \E e \in Edges(graph) :
        /\ e[2] \notin {ModuleName(f) : f \in DOMAIN tree}
        /\ "snippet" \notin DOMAIN graph.node[e[2]]

\* C4: two builds of the same tree give the same node set and the same edge
\* triples, whatever the order of the two walks.
C4_SameGraphTwice ==
    Built =>
        \A first \in previous :
            /\ Nodes(first) = Nodes(graph)
            /\ EdgeTriples(first) = EdgeTriples(graph)

\* C5: two distinct scanned source files never have the same module name.
C5_ModuleNameUnique ==
    \A f \in Scanned, g \in Scanned : f # g => ModuleName(f) # ModuleName(g)

\* C6 as stated: an unreadable file's module name is a node only if an import
\* names it as a target (or another, readable file has the same name).
C6_UnreadableExcluded ==
    \A f \in Scanned :
        ~tree[f].readable /\ ModuleName(f) \in Nodes(graph) =>
            \/ \E e \in Edges(graph) : e[2] = ModuleName(f)
            \/ \E g \in Scanned : g # f /\ tree[g].readable /\ ModuleName(g) = ModuleName(f)

\* C6 amended: the scan of an unreadable file adds its module name as a node
\* with the placeholder snippet and description, adds no edge, and the build
\* goes on to the end of the walk.
C6_UnreadableIsPlaceholderNode ==
    /\ [][\A f \in Paths :
            ScanStep(f) /\ ~tree[f].readable =>
                /\ ModuleName(f) \in Nodes(graph')
                /\ graph'.node[ModuleName(f)].snippet = "Unable to read file"
                /\ graph'.node[ModuleName(f)].description = "Description not available."
                /\ graph'.adj = graph.adj
                /\ pending' = <<>>
                /\ phase' = "building"]_vars
    /\ [](LoopGoesOn /\ (Built => visited = DOMAIN tree))

\* a finished build with an unreadable file whose node nothing points at,
\* scanned before the last file of the walk
C6_Witness ==
    /\ Built
    /\ \E f \in Scanned :
        /\ ~tree[f].readable
        /\ ModuleName(f) \in Nodes(graph)
        /\ graph.node[ModuleName(f)].snippet = "Unable to read file"
        /\ ~\E e \in Edges(graph) : e[2] = ModuleName(f)
        /\ module_name # ModuleName(f)

\* C7: the scan of an unparsable file gets no imports, adds the module's node
\* and no edge, and the build goes on to the end of the walk.
C7_UnparsableRecovered ==
    /\ [][\A f \in Paths :
            ScanStep(f) /\ tree[f].readable /\ ~tree[f].parses =>
                /\ pending' = <<>>
                /\ ModuleName(f) \in Nodes(graph')
                /\ graph'.adj = graph.adj
                /\ phase' = "building"]_vars
    /\ [](LoopGoesOn /\ (Built => visited = DOMAIN tree))

\* a finished build in which an unparsable file with an import statement in
\* its text was scanned before another source file, and has no outgoing edge
C7_Witness ==
    /\ Built
    /\ \E f \in Scanned :
        /\ tree[f].readable /\ ~tree[f].parses /\ tree[f].stmts # <<>>
        /\ ModuleName(f) \in Nodes(graph)
        /\ ~\E e \in Edges(graph) : e[1] = ModuleName(f)
        /\ module_name # ModuleName(f)
        /\ module_name \in Nodes(graph)

\* C8: the reported acyclicity is true iff the graph has no cycle of length
\* >= 1, a self-edge being a cycle.
C8_AcyclicIffNoCycle ==
    phase = "analyzed" => (report.acyclic <=> ~HasCycle(graph))

\* a -> b, b -> c, c -> a reported as not acyclic
C8_Witness ==
    /\ phase = "analyzed"
    /\ Edges(graph) = {<<A, B>>, <<B, C>>, <<C, A>>}
    /\ report.acyclic = FALSE

\* C9: within one build no step removes a node or an attribute key of a node.
C9_AttributesKept ==
    [][phase = "building" /\ phase' = "building" =>
        \A n \in Nodes(graph) :
            /\ n \in Nodes(graph')
            /\ DOMAIN graph.node[n] \subseteq DOMAIN graph'.node[n]]_vars

\* a module scanned earlier, still carrying its snippet, is the target of an
\* edge of the module being scanned now
C9_Witness ==
    /\ phase = "building"
    /\ \E e \in Edges(graph) :
        /\ e[1] = module_name
        /\ e[2] # module_name
        /\ "snippet" \in DOMAIN graph.node[e[2]]

\* C10: every edge's target is the first dot-separated segment of the
\* qualified name of an import of its source; a from-import with no module
\* part yields ('.' + name, name), and its edge goes to the node named ''.
C10_TopLevelTarget ==
    LET name    == [f \in Scanned |-> ModuleName(f)]
        imports == [f \in Scanned |-> parse_imports(tree[f])]
    IN  /\ \A e \in Edges(graph) :
            \E f \in Scanned :
                /\ e[1] = name[f]
                /\ \E i \in 1..Len(imports[f]) : IsFirstSegment(e[2], imports[f][i][1])
        /\ \A f \in Scanned :
            tree[f].readable /\ tree[f].parses =>
                \A k \in 1..Len(tree[f].stmts) :
                    LET stmt == tree[f].stmts[k]
                    IN  stmt.type = "ImportFrom" /\ stmt.module = {} =>
                            \A j \in 1..Len(stmt.names) :
                                /\ \E i \in 1..Len(imports[f]) :
                                     imports[f][i] = <<<<".">> \o stmt.names[j], stmt.names[j]>>
                                /\ Built => <<name[f], Root>> \in Edges(graph)

\* two different modules with a bare relative import share the node ''
C10_Witness ==
    /\ Built
    /\ Root \in Nodes(graph)
    /\ \E e1 \in Edges(graph), e2 \in Edges(graph) :
        e1[2] = Root /\ e2[2] = Root /\ e1[1] # e2[1]

====
